---- MODULE Spec2Model ----
(***************************************************************************)
(* Model of tools/inference/inference_pipeline.ipynb: the generation loop  *)
(* (key splitting, parallel generation, decoding, accumulation of images)  *)
(* and the optional CLIP ranking stage (sharding, regrouping of the logits *)
(* with squeeze(), ranked display).                                        *)
(*                                                                         *)
(* Arrays are records [shape, data] with data in row-major order, indices  *)
(* are 0-based as in the notebook; data[f + 1] is the element at flat      *)
(* index f.                                                                *)
(***************************************************************************)
EXTENDS Integers, Sequences, FiniteSets, TLC

\* ---------------------------------------------------------------- bounds
MaxDevices == 2
MaxPrompts == 2
MaxPredictions == 4
MaxExecutions == 2
MaxSeed == 1
NumScores == 2

VARIABLES
    seed,            \* seed drawn by random.randint
    device_count,    \* jax.device_count()
    prompts,         \* the list of prompts (each prompt stands for its index)
    n_predictions,   \* number of predictions per prompt
    key,             \* the running PRNG key
    subkey,          \* the half of the last split handed to the generator
    encoded_images,  \* output of p_generate after the BOS is removed
    images,          \* the accumulated image list
    i,               \* the generation loop's index
    pc,              \* position in the notebook
    execs,           \* how many times the generation cell has been started
    calls,           \* every p_generate invocation so far: [exec, round, keys]
    clip_params,     \* the parameters of the loaded scorer
    logits,          \* the regrouped score array
    di,              \* the display loop's prompt index
    section,         \* what the display loop printed under the latest header
    err              \* the exception that ended the display cell, if any

vars == <<seed, device_count, prompts, n_predictions, key, subkey,
          encoded_images, images, i, pc, execs, calls, clip_params, logits,
          di, section, err>>

\* ---------------------------------------------------------------- helpers
Max(a, b) == IF a >= b THEN a ELSE b

Range(s) == {s[x] : x \in DOMAIN s}

RECURSIVE Prod(_)
Prod(s) == IF s = <<>> THEN 1 ELSE Head(s) * Prod(Tail(s))

RECURSIVE Concat(_)
Concat(ss) == IF ss = <<>> THEN <<>> ELSE Head(ss) \o Concat(Tail(ss))

\* ---------------------------------------------------------------- PRNG keys
\* A key is the seed it descends from and the path of splits that led to it;
\* each path element <<num, idx>> says "element idx of a split into num".
PRNGKey(s) == [seed |-> s, path |-> <<>>]

\* the value of subkey before the first split assigns it
NoKey == [seed |-> -1, path |-> <<>>]

Child(k, num, idx) == [seed |-> k.seed, path |-> Append(k.path, <<num, idx>>)]

\* jax.random.split(key, num): num keys derived from key
Split(k, num) == [x \in 1..num |-> Child(k, num, x - 1)]

\* Faulty variant of SplitKey: the running key is not advanced
\* (_, subkey = jax.random.split(key)).
SplitKeyStale(k) == <<k, Split(k, 2)[2]>>

\* Faulty variant of SplitKey: the halves are taken in the other order
\* (subkey, key = jax.random.split(key)).
SplitKeySwapped(k) == <<Split(k, 2)[2], Split(k, 2)[1]>>

\* key, subkey = jax.random.split(key): <<new running key, subkey>>
SplitKey(k) == <<Split(k, 2)[1], Split(k, 2)[2]>>

\* Faulty variant of ShardPrngKey: the subkey is replicated, not sharded
\* (replicate(subkey)).
ShardPrngKeyReplicated(k, d) == [x \in 1..d |-> k]

\* shard_prng_key(subkey): one key per device
ShardPrngKey(k, d) == Split(k, d)

\* ---------------------------------------------------------------- generation
\* Faulty variant of NumRounds: the quotient is rounded up.
NumRoundsCeil(n, d) == (n + d - 1) \div d

\* trange(max(n_predictions // jax.device_count(), 1))
NumRounds(n, d) == Max(n \div d, 1)

\* Faulty variant of EmptyImages: the list of the previous execution is kept
\* (the line images = [] is missing).
KeptImages == images

\* images = []
EmptyImages == <<>>

BOS == "BOS"

\* p_generate: on each device, one token sequence per prompt, generated from
\* the device's key; the result has shape (device_count, len(prompts)).
PGenerate(tokenized, keys) ==
    [v \in 1..Len(keys) |->
        [x \in 1..Len(tokenized) |->
            <<BOS, [key |-> keys[v], prompt |-> tokenized[x]]>>]]

\* encoded_images.sequences[..., 1:]
RemoveBOS(enc) == [v \in DOMAIN enc |-> [x \in DOMAIN enc[v] |-> Tail(enc[v][x])]]

\* p_decode: every token sequence becomes one image
PDecode(enc) == [v \in DOMAIN enc |-> [x \in DOMAIN enc[v] |-> enc[v][x][1]]]

\* Faulty variant of ReshapeFlat: only the first device's images are kept
\* (decoded_images[0]).
ReshapeFirstShard(dec) == dec[1]

\* Faulty variant of ReshapeFlat: the grid is flattened prompt-major
\* (the device and prompt axes are swapped before the reshape).
ReshapeTransposed(dec) ==
    Concat([x \in 1..Len(dec[1]) |-> [v \in 1..Len(dec) |-> dec[v][x]]])

\* .reshape((-1, 256, 256, 3)): the (device, prompt) grid in row-major order
ReshapeFlat(dec) == Concat(dec)

Init ==
    /\ seed \in 0..MaxSeed
    /\ device_count \in 1..MaxDevices
    /\ \E p \in 1..MaxPrompts : prompts = [x \in 1..p |-> x - 1]
    /\ n_predictions \in 0..MaxPredictions
    /\ key = PRNGKey(seed)
    /\ subkey = NoKey
    /\ encoded_images = <<>>
    /\ images = <<>>
    /\ i = 0
    /\ pc = "ready"
    /\ execs = 0
    /\ calls = <<>>
    /\ clip_params = [a |-> 0, b |-> 0, c |-> 0]
    /\ logits = [shape |-> <<0>>, data |-> <<>>]
    /\ di = 0
    /\ section = <<>>
    /\ err = "none"

\* The generation cell is started, for the first time or again before the
\* ranking cells are run: images = [] and the first iteration of the loop is
\* entered (the range is never empty).  key is left as it is.
StartGenerate ==
    /\ pc \in {"ready", "generated"}
    /\ execs < MaxExecutions
    /\ images' = EmptyImages
    /\ i' = 0
    /\ execs' = execs + 1
    /\ pc' = "split"
    /\ UNCHANGED <<seed, device_count, prompts, n_predictions, key, subkey,
                   encoded_images, calls, clip_params, logits, di, section, err>>

\* key, subkey = jax.random.split(key)
SplitStep ==
    /\ pc = "split"
    /\ key' = SplitKey(key)[1]
    /\ subkey' = SplitKey(key)[2]
    /\ pc' = "generate"
    /\ UNCHANGED <<seed, device_count, prompts, n_predictions, encoded_images,
                   images, i, execs, calls, clip_params, logits, di, section, err>>

\* encoded_images = p_generate(tokenized_prompt, shard_prng_key(subkey), ...)
\* encoded_images = encoded_images.sequences[..., 1:]
Generate ==
    /\ pc = "generate"
    /\ LET keys == ShardPrngKey(subkey, device_count)
       IN /\ encoded_images' = RemoveBOS(PGenerate(prompts, keys))
          /\ calls' = Append(calls, [exec |-> execs, round |-> i, keys |-> keys])
    /\ pc' = "decode"
    /\ UNCHANGED <<seed, device_count, prompts, n_predictions, key, subkey,
                   images, i, execs, clip_params, logits, di, section, err>>

\* decoded_images = p_decode(...).clip(0.0, 1.0).reshape((-1, 256, 256, 3));
\* every decoded image is appended; then the loop advances or ends.
Decode ==
    /\ pc = "decode"
    /\ images' = images \o ReshapeFlat(PDecode(encoded_images))
    /\ IF i + 1 < NumRounds(n_predictions, device_count)
         THEN i' = i + 1 /\ pc' = "split"
         ELSE i' = i /\ pc' = "generated"
    /\ UNCHANGED <<seed, device_count, prompts, n_predictions, key, subkey,
                   encoded_images, execs, calls, clip_params, logits, di,
                   section, err>>

\* ---------------------------------------------------------------- arrays
\* a.squeeze(): every axis of length 1 is removed
Squeeze(a) == [shape |-> SelectSeq(a.shape, LAMBDA s : s # 1), data |-> a.data]

\* a[x] for an array of at least one dimension and x within its first axis
Row(a, x) ==
    LET stride == Prod(Tail(a.shape))
    IN [shape |-> Tail(a.shape),
        data |-> SubSeq(a.data, x * stride + 1, (x + 1) * stride)]

\* ---------------------------------------------------------------- scoring
\* text=prompts * jax.device_count()
RepeatPrompts(ps, d) == Concat([v \in 1..d |-> ps])

\* shard(xs): xs.reshape((device_count, -1) + xs.shape[1:]); element [v][b]
\* of the result is xs[v * (len(xs) // device_count) + b]
Shard(xs, d) ==
    LET per == Len(xs) \div d
    IN [v \in 1..d |-> [b \in 1..per |-> (v - 1) * per + (b - 1)]]

\* The scorer: a deterministic function of the image and the text, fixed by
\* the loaded parameters.  An image is determined by the key and the prompt
\* it was generated from.
ClipLogit(cp, image, text) ==
    LET path == image.key.path
        dev == path[Len(path)][2]
    IN (cp.a * Len(path) + cp.b * dev + cp.c * (image.prompt + 2 * text))
           % NumScores

\* logits = p_clip(shard(clip_inputs), clip_params): on every device the
\* logits_per_image of its images against its texts; shape
\* (device_count, images per device, texts per device).  An entry records
\* the image (its flat index) and the text it scores.
PClip(cp, texts, imgs, d) ==
    LET imgShard == Shard(imgs, d)
        txtShard == Shard(texts, d)
        B == Len(imgs) \div d
        T == Len(texts) \div d
    IN [shape |-> <<d, B, T>>,
        data |-> [f \in 1..(d * B * T) |->
            LET v == (f - 1) \div (B * T)
                b == ((f - 1) \div T) % B
                t == (f - 1) % T
                img == imgShard[v + 1][b + 1]
                txt == texts[txtShard[v + 1][t + 1] + 1]
            IN [img |-> img, text |-> txt,
                val |-> ClipLogit(cp, imgs[img + 1], txt)]]]

\* Faulty variant of Regroup: each prompt's images are taken as a contiguous
\* block (logits[:, i*K:(i+1)*K, i]) instead of every p-th image.
RegroupContiguous(lg, p) ==
    LET d == lg.shape[1]
        B == lg.shape[2]
        T == lg.shape[3]
        K == B \div p
    IN [shape |-> <<p, d, K>>,
        data |-> [g \in 1..(p * d * K) |->
            LET x == (g - 1) \div (d * K)
                v == ((g - 1) \div K) % d
                k == (g - 1) % K
            IN lg.data[v * B * T + (x * K + k) * T + x + 1]]]

\* np.asarray([logits[:, i::p, i] for i in range(p)]): shape (p, d, K) with
\* element [x][v][k] = logits[v][x + k * p][x]
Regroup(lg, p) ==
    LET d == lg.shape[1]
        B == lg.shape[2]
        T == lg.shape[3]
        K == B \div p
    IN [shape |-> <<p, d, K>>,
        data |-> [g \in 1..(p * d * K) |->
            LET x == (g - 1) \div (d * K)
                v == ((g - 1) \div K) % d
                k == (g - 1) % K
            IN lg.data[v * B * T + (x + k * p) * T + x + 1]]]

\* ---------------------------------------------------------------- display
ListIndexError == "IndexError: list index out of range"

\* no score was printed beside the image
NoScore == [img |-> -1, text |-> -1, val |-> -1]

\* Every result row.argsort() may return for a vector: an ascending order of
\* its values; the order among equal values is not determined.
ArgSorts(row) ==
    LET L == Len(row.data)
    IN {o \in [1..L -> 0..(L - 1)] :
          /\ \A x, y \in 1..L : x # y => o[x] # o[y]
          /\ \A x \in 1..L : \A y \in (x + 1)..L :
                row.data[o[x] + 1].val <= row.data[o[y] + 1].val}

\* [::-1]
Reverse(s) == [x \in 1..Len(s) |-> s[Len(s) + 1 - x]]

\* display(images[idx*p+i]); print(logits[i][idx]) for idx in the given
\* order, up to the first index outside the list
ShowInOrder(order, row, imgs, p, x) ==
    LET L == Len(order)
        pos == [y \in 1..L |-> order[y] * p + x]
        bad == {y \in 1..L : pos[y] >= Len(imgs)}
        stop == IF bad = {} THEN L
                ELSE (CHOOSE y \in bad : \A z \in bad : y <= z) - 1
    IN [section |-> [y \in 1..stop |->
                        [pos |-> pos[y], image |-> imgs[pos[y] + 1],
                         score |-> row.data[order[y] + 1]]],
        err |-> IF bad = {} THEN "none" ELSE ListIndexError]

\* The ranking of prompt index x in the display loop: the possible outputs
\* under its header and the exception raised, if any.
RankedDisplay(lg, imgs, p, x) ==
    IF Len(lg.shape) = 0 \/ (Len(lg.shape) > 0 /\ x >= lg.shape[1])
    THEN \* logits[i]: too many indices / index out of bounds
         {[section |-> <<>>, err |-> "IndexError: too many indices for array"]}
    ELSE LET row == Row(lg, x)
         IN CASE Len(row.shape) = 0 ->
                 \* a scalar: argsort() gives [0]; images[i] is displayed,
                 \* then logits[i][0] indexes a scalar
                 IF x >= Len(imgs)
                 THEN {[section |-> <<>>, err |-> ListIndexError]}
                 ELSE {[section |-> <<[pos |-> x, image |-> imgs[x + 1],
                                      score |-> NoScore]>>,
                        err |-> "IndexError: invalid index to scalar variable"]}
              [] Len(row.shape) = 1 ->
                 {ShowInOrder(Reverse(o), row, imgs, p, x) : o \in ArgSorts(row)}
              [] OTHER ->
                 \* idx is a vector: images[idx*p+i] indexes a list with an array
                 {[section |-> <<>>,
                   err |-> "TypeError: only integer scalar arrays can be converted to a scalar index"]}

\* FlaxCLIPModel.from_pretrained(...): the scorer's parameters are loaded
LoadClip ==
    /\ pc = "generated"
    /\ clip_params' \in [a : 0..(NumScores - 1), b : 0..(NumScores - 1),
                         c : 0..(NumScores - 1)]
    /\ pc' = "clip_loaded"
    /\ UNCHANGED <<seed, device_count, prompts, n_predictions, key, subkey,
                   encoded_images, images, i, execs, calls, logits, di,
                   section, err>>

\* The scoring cell: p_clip on the sharded inputs, then the regrouping
\* p = len(prompts); logits = np.asarray([...]).squeeze()
Score ==
    /\ pc = "clip_loaded"
    /\ logits' = Squeeze(Regroup(PClip(clip_params,
                                       RepeatPrompts(prompts, device_count),
                                       images, device_count),
                                 Len(prompts)))
    /\ pc' = "scored"
    /\ UNCHANGED <<seed, device_count, prompts, n_predictions, key, subkey,
                   encoded_images, images, i, execs, calls, clip_params, di,
                   section, err>>

\* for i, prompt in enumerate(prompts): print(f"Prompt: {prompt}\n")
\* The loop takes the next prompt and prints its header, under which a new
\* section of the output begins.
DisplayHeader ==
    /\ pc \in {"scored", "display"}
    /\ di' = IF pc = "scored" THEN 0 ELSE di + 1
    /\ section' = <<>>
    /\ pc' = "ranking"
    /\ UNCHANGED <<seed, device_count, prompts, n_predictions, key, subkey,
                   encoded_images, images, i, execs, calls, clip_params,
                   logits, err>>

\* for idx in logits[i].argsort()[::-1]: display(...); print(...)
DisplayRanked ==
    /\ pc = "ranking"
    /\ \E out \in RankedDisplay(logits, images, Len(prompts), di) :
          /\ section' = out.section
          /\ err' = out.err
          /\ pc' = IF out.err # "none" THEN "crashed"
                   ELSE IF di + 1 < Len(prompts) THEN "display"
                   ELSE "displayed"
    /\ UNCHANGED <<seed, device_count, prompts, n_predictions, key, subkey,
                   encoded_images, images, i, execs, calls, clip_params,
                   logits, di>>

\* ---------------------------------------------------------------- properties
NPrompts == Len(prompts)

\* the p_generate invocations of execution e of the generation cell
CallsOf(e) == SelectSeq(calls, LAMBDA c : c.exec = e)

\* the generation cell has run to its end at least once
GenerationDone == pc \in {"generated", "clip_loaded", "scored", "ranking",
                          "display", "displayed", "crashed"}

\* the display loop has finished or abandoned the ranking of prompt di
DisplayRan == pc \in {"display", "displayed", "crashed"}

CeilDiv(a, b) == (a + b - 1) \div b

C3_AtLeastRequested == GenerationDone => Len(images) >= n_predictions

\* rounds of the current execution whose images have been appended
RoundsAppended ==
    IF execs = 0 THEN 0
    ELSE IF pc \in {"split", "generate", "decode"} THEN i ELSE i + 1

LayoutInv ==
    LET d == device_count
        p == NPrompts
        k == RoundsAppended
    IN /\ Len(images) = k * d * p
       /\ \A r \in 0..(k - 1) : \A v \in 0..(d - 1) : \A x \in 0..(p - 1) :
             /\ CallsOf(execs)[r + 1].round = r
             /\ images[r * d * p + v * p + x + 1] =
                    [key |-> CallsOf(execs)[r + 1].keys[v + 1],
                     prompt |-> prompts[x + 1]]

AppendOnly ==
    execs' = execs =>
        /\ Len(images') >= Len(images)
        /\ SubSeq(images', 1, Len(images)) = images

\* C4: the image list is round-major, then device-major, then
\* prompt-index-minor: after k appended rounds its length is
\* k * device_count * p and the image of round r, device v, prompt x is at
\* flat index r*device_count*p + v*p + x; within one execution of the loop
\* no step moves, replaces or removes an image already appended.
C4_RoundDevicePromptLayout == [](LayoutInv) /\ [][AppendOnly]_vars

C4_Witness ==
    /\ pc = "generated"
    /\ i >= 1
    /\ device_count = 2
    /\ NPrompts = 2
    /\ Len(images) = 8

\* the entries of the regrouped scores that belong to prompt index x
GroupOf(x) ==
    LET G == Len(images) \div NPrompts
    IN {logits.data[g] : g \in (x * G + 1)..((x + 1) * G)}

RegroupedInv ==
    /\ Len(logits.data) = Len(images)
    /\ \A x \in 0..(NPrompts - 1) :
          /\ {e.img : e \in GroupOf(x)} =
                 {j \in 0..(Len(images) - 1) : j % NPrompts = x}
          /\ \A e \in GroupOf(x) :
                /\ e.text = prompts[x + 1]
                /\ images[e.img + 1].prompt = prompts[x + 1]
                /\ e.val = ClipLogit(clip_params, images[e.img + 1],
                                     prompts[x + 1])

DisplayedPairsInv ==
    \A y \in DOMAIN section :
        LET s == section[y]
        IN /\ s.pos % NPrompts = di
           /\ s.image = images[s.pos + 1]
           /\ s.image.prompt = prompts[di + 1]
           /\ s.score # NoScore =>
                 /\ s.score.img = s.pos
                 /\ s.score.text = prompts[di + 1]
                 /\ s.score.val =
                        ClipLogit(clip_params, s.image, prompts[di + 1])

\* C5: for every prompt index x the regrouped scores of x are those of
\* exactly the images at flat positions {x, x+p, x+2p, ...}, each scored
\* against prompt x; every image the display loop shows for prompt x is an
\* image generated from prompt x, and a score printed beside it is the
\* scorer's value for that image against prompt x.
C5_RegroupingIsStrided ==
    /\ pc \in {"scored", "ranking", "display", "displayed", "crashed"} =>
          RegroupedInv
    /\ DisplayRan => DisplayedPairsInv

C5_Witness ==
    /\ pc = "displayed"
    /\ NPrompts = 2
    /\ Len(images) = 8
    /\ Len(section) = 4
    /\ \A y \in DOMAIN section : section[y].score # NoScore
    /\ \E y, z \in DOMAIN section : section[y].score.val # section[z].score.val

\* C6: for each prompt the display loop ends without an exception, shows
\* every image accumulated for that prompt exactly once and in
\* non-increasing score order.
C6_RankedAllDescending ==
    DisplayRan =>
        /\ err = "none"
        /\ Len(section) = Len(images) \div NPrompts
        /\ {section[y].pos : y \in DOMAIN section} =
               {j \in 0..(Len(images) - 1) : j % NPrompts = di}
        /\ \A y \in DOMAIN section : \A z \in DOMAIN section :
               y < z => section[y].score.val >= section[z].score.val

\* the running key after g splits, starting from PRNGKey(s)
RECURSIVE RetainedKey(_, _)
RetainedKey(s, g) ==
    IF g = 0 THEN PRNGKey(s) ELSE Child(RetainedKey(s, g - 1), 2, 0)

\* the per-device keys of the g-th round (0-based, counted over the session)
DerivedSubKeys(s, g, d) ==
    [v \in 1..d |-> Child(Child(RetainedKey(s, g), 2, 1), d, v - 1)]

SplitsDone == Len(calls) + (IF pc = "generate" THEN 1 ELSE 0)

\* C7: the retained keys and the per-round, per-device sub-keys are a
\* function of the initial seed, the round index and the device count alone:
\* whatever the prompts and n_predictions, the g-th generator call receives
\* DerivedSubKeys(seed, g, device_count) and the running key after g splits
\* is RetainedKey(seed, g).
C7_KeysDependOnSeedAndRound ==
    /\ key = RetainedKey(seed, SplitsDone)
    /\ \A g \in DOMAIN calls :
          calls[g].keys = DerivedSubKeys(seed, g - 1, device_count)

C7_Witness ==
    /\ Len(calls) >= 3
    /\ execs = 2
    /\ device_count = 2
    /\ pc = "generated"

SplitStepShape ==
    /\ key' # key =>
          /\ pc = "split"
          /\ pc' = "generate"
          /\ key' = Child(key, 2, 0)
          /\ subkey' = Child(key, 2, 1)
    /\ (pc = "split" /\ pc' # "split") => key' # key
    /\ pc = "generate" =>
          /\ pc' = "decode"
          /\ subkey' = subkey
          /\ calls' = Append(calls,
                 [exec |-> execs, round |-> i,
                  keys |-> [v \in 1..device_count |->
                               Child(subkey, device_count, v - 1)]])
    /\ pc # "generate" => calls' = calls

RetainedNeverPassed ==
    \A g \in DOMAIN calls : \A h \in 0..(Len(calls) + 1) :
        RetainedKey(seed, h) \notin Range(calls[g].keys)

\* C8: the running key changes only in the split that opens a round, where
\* it becomes the first half of a two-way split of itself and the second
\* half becomes the subkey; the generator call that follows receives
\* exactly the subkey's per-device shards; no running key is ever passed to
\* the generator.
C8_SplitOncePerRound ==
    /\ [][SplitStepShape]_vars
    /\ [](key \notin UNION {Range(calls[g].keys) : g \in DOMAIN calls})
    /\ [](RetainedNeverPassed)

C8_Witness ==
    /\ pc = "decode"
    /\ i >= 1
    /\ device_count = 2
    /\ Len(calls) >= 2

\* C9: no two (generator call, device) pairs of a session receive the same
\* key, across all executions of the generation cell.
C9_GeneratorKeysUnique ==
    \A g, h \in DOMAIN calls : \A v, w \in 1..device_count :
        (g # h \/ v # w) => calls[g].keys[v] # calls[h].keys[w]

C9_Witness ==
    /\ execs = 2
    /\ device_count = 2
    /\ \E g, h \in DOMAIN calls : calls[g].exec = 1 /\ calls[h].exec = 2

\* C10: after any number of executions of the generation cell the list
\* holds exactly the images of the latest execution (rounds * device_count
\* * p of them), and the display loop never indexes the list out of bounds.
C10_LatestExecutionOnly ==
    /\ GenerationDone =>
          /\ Len(images) = Len(CallsOf(execs)) * device_count * NPrompts
          /\ \A y \in DOMAIN images :
                \E g \in DOMAIN calls :
                    /\ calls[g].exec = execs
                    /\ images[y].key \in Range(calls[g].keys)
    /\ err # ListIndexError
    /\ \A y \in DOMAIN section : section[y].pos < Len(images)

C10_Witness ==
    /\ execs = 2
    /\ pc = "displayed"
    /\ NPrompts = 2
    /\ Len(section) >= 2

Next ==
    \/ StartGenerate
    \/ SplitStep
    \/ Generate
    \/ Decode
    \/ LoadClip
    \/ Score
    \/ DisplayHeader
    \/ DisplayRanked

Spec == Init /\ [][Next]_vars
====
